---- MODULE Spec2Model ----
(***************************************************************************)
(* Model of mongodb-core's authentication coordinator (AuthProvider,       *)
(* lib/auth/auth_provider.js) and of the SCRAM mechanism built on it       *)
(* (ScramSHA, ScramSHA1, ScramSHA256).                                     *)
(*                                                                         *)
(* One step of the model is one turn of the node event loop: a call made   *)
(* by the user of the provider (auth, reauthenticate, logout,              *)
(* addCredentials), one process.nextTick callback, the crypto.randomBytes  *)
(* callback, or the callback of one command written on a connection.       *)
(* Everything a turn calls synchronously is part of that step.             *)
(*                                                                         *)
(* Spec is the provider under every call of its user; SpecScram is one     *)
(* auth call against any server; SpecHI is the key derivation HI and its   *)
(* cache under direct calls; SpecUser is the clean-up of the username for  *)
(* the first client message.                                               *)
(***************************************************************************)
EXTENDS Integers, Sequences, FiniteSets, TLC

\* Bounds of the model.
MaxOps == 1        \* auth and reauthenticate invocations in one behaviour
MaxConns == 2      \* length of a connection list handed to auth/reauthenticate
MixedInputs == 2   \* key-derivation inputs that are used with both hash methods
MaxUserLen == 4    \* length of a username handed to _executeScram on its own

\* Program constant: the smallest iteration count _executeScram accepts.
MinIterations == 4096

\* Program constant: the insertion count at which HI purges its cache.
HiCacheLimit == 200

\* ------------------------------------------------------------------------
\* Values
\* ------------------------------------------------------------------------

\* JavaScript null / undefined (both falsy, both "no error", "no reply").
NULL == [kind |-> "null"]

\* JavaScript false, as passed for r in callback(error, false).
JSFalse == [kind |-> "false"]

\* new MongoError(message), tagged with the connection whose attempt made it
\* (object identity: two errors of two attempts are different objects).
MongoError(message, conn) == [kind |-> "error", message |-> message, conn |-> conn]

\* The reply r to a command written on connection conn: r.result carries
\* done (true, false or absent), possibly $err or errmsg, and, for saslStart,
\* a payload whose i field is the iteration count.
Reply(conn, step, done, errField, i) ==
  [kind |-> "reply", conn |-> conn, step |-> step, done |-> done,
   errField |-> errField, i |-> i]

\* What the AuthWriteCallback of a command receives: (err, r).
Answer(err, r) == [err |-> err, r |-> r]

\* The sources (authentication databases) of the model.
Sources == {"a", "b"}

\* new MongoCredentials({username, password, source}): auth() passes no
\* mechanism, so every credential of one provider carries the same one.
MongoCredentials(username, password, source) ==
  [username |-> username, password |-> password, source |-> source,
   mechanism |-> "default"]

\* The credentials the user's calls are drawn from: two users of source a, one
\* of source b, and a second credential of u1@a that differs in the password
\* only (equal under MongoCredentials.equals, and empty: passwordDigest
\* rejects it).
Creds ==
  { MongoCredentials("u1", "pencil", "a"), MongoCredentials("u1", "", "a"),
    MongoCredentials("u2", "pencil", "a"), MongoCredentials("u1", "pencil", "b") }

\* The credentials handed to addCredentials directly: one of each user and
\* source.
AddedCreds ==
  { MongoCredentials("u1", "", "a"), MongoCredentials("u2", "pencil", "a"),
    MongoCredentials("u1", "pencil", "b") }

\* Iteration counts a saslStart reply carries.
IterationCounts == {0, MinIterations - 1, MinIterations}

\* The iteration counts of a server that never sends one below 1.
PositiveCounts == {i \in IterationCounts : i >= 1}

\* Answers to saslStart, with an iteration count out of counts.
StartAnswersIn(conn, counts) ==
  { Answer(MongoError("network", conn), NULL),
    Answer(NULL, Reply(conn, 1, "absent", "$err", 0)) }
  \cup { Answer(NULL, Reply(conn, 1, "false", "none", i)) : i \in counts }

StartAnswers(conn) == StartAnswersIn(conn, IterationCounts)

\* Answers to the saslContinue that carries the proof.
ContinueAnswers(conn) ==
  { Answer(MongoError("network", conn), NULL) }
  \cup { Answer(NULL, Reply(conn, 2, d, e, 0)) :
           d \in {"true", "false", "absent"}, e \in {"none", "errmsg"} }

\* Answers to the empty saslContinue.
AckAnswers(conn) ==
  { Answer(MongoError("network", conn), NULL) }
  \cup { Answer(NULL, Reply(conn, 3, "true", e, 0)) : e \in {"none", "errmsg"} }

\* ------------------------------------------------------------------------
\* State
\* ------------------------------------------------------------------------

VARIABLES
  cryptoMethod,  \* this.cryptoMethod: "sha1" or "sha256"
  authStore,     \* this.authStore: sequence of credentials
  calls,         \* one record per _auth invocation: its closure and attempts
  reauths,       \* one record per reauthenticate invocation: its closure
  tickQueue,     \* process.nextTick queue: <<call, connection>> in FIFO order
  hiCache,       \* _hiCache: function from cache keys to salted passwords
  hiCacheCount,  \* _hiCacheCount
  hiLast,        \* the last direct call of HI: its inputs and what it did
  stale,         \* the _auth invocations in flight when logout ran for their source
  scramUser      \* a username and the first client message made from it

vars == <<cryptoMethod, authStore, calls, reauths, tickQueue, hiCache,
          hiCacheCount, hiLast, stale, scramUser>>

\* A record of calls holds the closure of one _auth invocation: cred (the
\* credentials), count, numberOfValidConnections, errorObject, and parent (0
\* when the callback is the user's, else the reauthenticate invocation whose
\* callback it is). It also records what happened: n (connections.length at
\* the call), att (one attempt per connection), order (the connections in the
\* order their attempts reported), and the invocations of the callback
\* (cbCount, with the last arguments cbErr and cbRes).
\* An attempt holds pc (what it waits for: "tick", "nonce", "start",
\* "continue", "retry"; or "done", "thrown"), nonce (the client nonce of its
\* _executeScram closure), cmds (the commands it wrote) and wire (the same
\* commands with what they carry), rep1 (the answer to saslStart), rep2 (the
\* answer to the saslContinue carrying the proof), and the outcome it
\* reported (outErr, outRes; reported counts the reports).
\* A record of reauths holds authStore (the snapshot), count, n, first (the
\* first _auth invocation it makes), order (its _auth invocations in the order
\* they called back) and the invocations of the user's callback.

\* The part of the state the provider's methods read and write, as one value.
Bundle == [authStore |-> authStore, calls |-> calls, reauths |-> reauths,
           tickQueue |-> tickQueue, hiCache |-> hiCache,
           hiCacheCount |-> hiCacheCount, stale |-> stale]

\* Faulty variant of NewAttempt: execute is run inside the loop of _auth.
NewAttemptStarted ==
  [pc |-> "nonce", nonce |-> NULL, cmds |-> <<>>, wire |-> <<>>, rep1 |-> NULL,
   rep2 |-> NULL, outErr |-> NULL, outRes |-> NULL, reported |-> 0]

\* An attempt on one connection that execute has not run yet.
NewAttempt ==
  [pc |-> "tick", nonce |-> NULL, cmds |-> <<>>, wire |-> <<>>, rep1 |-> NULL,
   rep2 |-> NULL, outErr |-> NULL, outRes |-> NULL, reported |-> 0]

\* ------------------------------------------------------------------------
\* AuthProvider (lib/auth/auth_provider.js)
\* ------------------------------------------------------------------------

\* MongoCredentials.equals: same mechanism, username and source; the password
\* is not compared.
CredEquals(a, b) ==
  /\ a.mechanism = b.mechanism
  /\ a.username = b.username
  /\ a.source = b.source

\* Faulty variant of addCredentials: the credentials are pushed without the look-up.
addCredentialsAlways(store, credentials) == Append(store, credentials)

\* addCredentials(credentials): push unless some stored credential equals it.
addCredentials(store, credentials) ==
  LET found == \E i \in 1..Len(store) : CredEquals(store[i], credentials)
  IN IF ~found THEN Append(store, credentials) ELSE store

\* Faulty variant of logout: the filter compares the user name, not the source.
logoutByUsername(store, source) ==
  LET keep(credentials) == credentials.username # source
  IN SelectSeq(store, keep)

\* logout(source): keep the credentials of every other source.
logout(store, source) ==
  LET keep(credentials) == credentials.source # source
  IN SelectSeq(store, keep)

\* Faulty variant of ReauthCallback: the user's callback is called without the error.
ReauthCallbackDropsError(S, p, id, err) ==
  LET count == S.reauths[p].count - 1
      S1 == [S EXCEPT !.reauths[p].count = count,
                      !.reauths[p].order = Append(@, id)]
  IN IF count = 0
       THEN [S1 EXCEPT !.reauths[p].cbCount = @ + 1,
                       !.reauths[p].cbErr = NULL,
                       !.reauths[p].cbRes = "null"]
       ELSE S1

\* The callback reauthenticate hands to _auth for each credential of its
\* snapshot: count down, and on zero call the user's callback with this err.
ReauthCallback(S, p, id, err) ==
  LET count == S.reauths[p].count - 1
      S1 == [S EXCEPT !.reauths[p].count = count,
                      !.reauths[p].order = Append(@, id)]
  IN IF count = 0
       THEN [S1 EXCEPT !.reauths[p].cbCount = @ + 1,
                       !.reauths[p].cbErr = err,
                       !.reauths[p].cbRes = "null"]
       ELSE S1

\* Invoke the callback of _auth invocation id with (err, res): the user's
\* callback (recorded in the call), or reauthenticate's.
Callback(S, id, err, res) ==
  LET S1 == [S EXCEPT !.calls[id].cbCount = @ + 1,
                      !.calls[id].cbErr = err,
                      !.calls[id].cbRes = res]
  IN IF S.calls[id].parent = 0
       THEN S1
       ELSE ReauthCallback(S1, S.calls[id].parent, id, err)

\* r.result && r.result[field]
HasErrField(r, field) == r.kind = "reply" /\ r.errField = field

\* Whether execute's callback counts (err, r) as a valid connection: no err,
\* and neither $err nor errmsg in r.result.
Valid(err, r) ==
  /\ err = NULL
  /\ ~HasErrField(r, "$err")
  /\ ~HasErrField(r, "errmsg")

\* Faulty variant of CaptureError: the first error captured is kept.
CaptureFirstError(errorObject, err, r) ==
  IF errorObject # NULL THEN errorObject
  ELSE IF err # NULL THEN err
  ELSE IF HasErrField(r, "$err") \/ HasErrField(r, "errmsg") THEN r
  ELSE errorObject

\* errorObject after execute's callback has looked at (err, r).
CaptureError(errorObject, err, r) ==
  IF err # NULL THEN err
  ELSE IF HasErrField(r, "$err") THEN r
  ELSE IF HasErrField(r, "errmsg") THEN r
  ELSE errorObject

\* Faulty variants of StillAuthenticating: the overall callback on every outcome, and
\* an off-by-one countdown.
StillAuthenticatingNever(count) == FALSE
StillAuthenticatingOffByOne(count) == count > 1

\* "Still authenticating against other connections": the callback returns.
StillAuthenticating(count) == count # 0

\* new MongoError(`failed to authenticate using ${credentials.mechanism}`)
GenericError == MongoError("failed to authenticate", 0)

\* Faulty variant of Conclude: success only when every connection was valid.
ConcludeAllValid(S, id) ==
  LET c == S.calls[id]
  IN IF c.numberOfValidConnections = c.n
       THEN Callback([S EXCEPT !.authStore = addCredentials(@, c.cred)],
                     id, NULL, "true")
       ELSE LET e == IF c.errorObject = NULL THEN GenericError ELSE c.errorObject
            IN Callback([S EXCEPT !.calls[id].errorObject = e], id, e, "false")

\* Faulty variant of Conclude: the credentials are stored whatever the verdict.
ConcludeStoresAlways(S, id) ==
  LET c == S.calls[id]
      S1 == [S EXCEPT !.authStore = addCredentials(@, c.cred)]
  IN IF c.numberOfValidConnections > 0
       THEN Callback(S1, id, NULL, "true")
       ELSE LET e == IF c.errorObject = NULL THEN GenericError ELSE c.errorObject
            IN Callback([S1 EXCEPT !.calls[id].errorObject = e], id, e, "false")

\* The end of execute's callback, once count is 0: store the credentials and
\* report success, or report the captured error.
Conclude(S, id) ==
  LET c == S.calls[id]
  IN IF c.numberOfValidConnections > 0
       THEN Callback([S EXCEPT !.authStore = addCredentials(@, c.cred)],
                     id, NULL, "true")
       ELSE LET e == IF c.errorObject = NULL THEN GenericError ELSE c.errorObject
            IN Callback([S EXCEPT !.calls[id].errorObject = e], id, e, "false")

\* The callback execute hands to _authenticateSingleConnection, invoked with
\* (err, r) by the attempt of call id on connection k.
Report(S, id, k, err, r) ==
  LET c == S.calls[id]
      count == c.count - 1
      numberOfValidConnections ==
        IF Valid(err, r) THEN c.numberOfValidConnections + 1
        ELSE c.numberOfValidConnections
      S1 == [S EXCEPT
               !.calls[id].count = count,
               !.calls[id].errorObject = CaptureError(@, err, r),
               !.calls[id].numberOfValidConnections = numberOfValidConnections,
               !.calls[id].order = Append(@, k),
               !.calls[id].att[k].pc = "done",
               !.calls[id].att[k].outErr = err,
               !.calls[id].att[k].outRes = r,
               !.calls[id].att[k].reported = @ + 1]
  IN IF StillAuthenticating(count) THEN S1
     ELSE Conclude(S1, id)

\* Faulty variant of EmptyCallback: an empty list handled as a success.
EmptyCallbackAsSuccess(S, id) ==
  Callback([S EXCEPT !.authStore = addCredentials(@, S.calls[id].cred)],
           id, NULL, "true")

\* if (count === 0) return callback(null, null)
EmptyCallback(S, id) == Callback(S, id, NULL, "null")

\* while (connections.length > 0) executeInNextTick(connections.shift()):
\* the array is emptied in place, one nextTick callback is queued per element.
RECURSIVE Dispatch(_, _, _)
Dispatch(queue, connections, id) ==
  IF Len(connections) > 0
    THEN Dispatch(Append(queue, <<id, Head(connections)>>), Tail(connections), id)
    ELSE [queue |-> queue, connections |-> connections]

\* _auth(writeCommand, connections, credentials, callback), callback being the
\* user's (parent = 0) or that of reauthenticate invocation parent. Yields the
\* new state and the connections array as the call leaves it.
Auth(S, connections, credentials, parent) ==
  LET id == Len(S.calls) + 1
      count == Len(connections)
      call == [cred |-> credentials, parent |-> parent, n |-> count,
               count |-> count, numberOfValidConnections |-> 0,
               errorObject |-> NULL,
               att |-> [k \in 1..count |-> NewAttempt],
               order |-> <<>>,
               cbCount |-> 0, cbErr |-> NULL, cbRes |-> "none"]
      S0 == [S EXCEPT !.calls = Append(@, call)]
  IN IF count = 0
       THEN [S |-> EmptyCallback(S0, id), connections |-> connections]
       ELSE LET d == Dispatch(S0.tickQueue, connections, id)
            IN [S |-> [S0 EXCEPT !.tickQueue = d.queue],
                connections |-> d.connections]

\* for (i = 0; i < authStore.length; i++) this._auth(writeCommand, connections,
\* authStore[i], ...): every iteration is handed the same connections array.
RECURSIVE ReauthLoop(_, _, _, _)
ReauthLoop(S, connections, p, i) ==
  IF i > Len(S.reauths[p].authStore) THEN S
  ELSE LET r == Auth(S, connections, S.reauths[p].authStore[i], p)
       IN ReauthLoop(r.S, r.connections, p, i + 1)

\* reauthenticate(writeCommand, connections, callback)
reauthenticate(S, connections) ==
  LET snapshot == S.authStore
      count == Len(snapshot)
      p == Len(S.reauths) + 1
      re == [authStore |-> snapshot, n |-> Len(connections), count |-> count,
             first |-> Len(S.calls) + 1, order |-> <<>>,
             cbCount |-> 0, cbErr |-> NULL, cbRes |-> "none"]
      S0 == [S EXCEPT !.reauths = Append(@, re)]
  IN IF count = 0
       THEN [S0 EXCEPT !.reauths[p].cbCount = @ + 1,
                       !.reauths[p].cbErr = NULL,
                       !.reauths[p].cbRes = "null"]
       ELSE ReauthLoop(S0, connections, p, 1)

\* ------------------------------------------------------------------------
\* ScramSHA (the mechanism: _authenticateSingleConnection, _executeScram)
\* ------------------------------------------------------------------------

\* passwordDigest(username, password): the hex MD5 of
\* username + ':mongo:' + password.
passwordDigest(username, password) ==
  [kind |-> "md5", username |-> username, password |-> password]

\* The password _executeScram derives the key from: saslprep(password) for
\* sha256 (the passwords of the model are ASCII), the digest for sha1.
ProcessedPassword(method, credentials) ==
  IF method = "sha256"
    THEN [kind |-> "password", password |-> credentials.password]
    ELSE passwordDigest(credentials.username, credentials.password)

\* crypto.pbkdf2Sync(data, salt, iterations, hiLengthMap[method], method):
\* the derived key, as the term that names its four inputs.
pbkdf2Sync(data, salt, iterations, method) ==
  [kind |-> "salted", data |-> data, salt |-> salt, iterations |-> iterations,
   method |-> method]

\* The cache key of HI: [data, salt.toString('base64'), iterations].join('_').
\* A base64 salt and a number hold no '_', so the joined string determines
\* the three parts; cryptoMethod is not one of them.
HiKey(data, salt, iterations, method) == <<data, salt, iterations>>

\* _hiCache = {}
EmptyCache == [key \in {} |-> NULL]

\* Faulty variant of HiCacheFull: the purge comes one insertion late.
HiCacheFullLate(count) == count > HiCacheLimit

\* if (_hiCacheCount >= 200) _hiCachePurge()
HiCacheFull(count) == count >= HiCacheLimit

\* HI(data, salt, iterations, cryptoMethod) on the cache held in S. Yields the
\* state it leaves, the value it returns, whether pbkdf2Sync ran (computed)
\* and whether it threw. pbkdf2Rejects: whether this build's pbkdf2Sync
\* throws on an iteration count below 1.
HI(S, data, salt, iterations, method, pbkdf2Rejects) ==
  LET key == HiKey(data, salt, iterations, method)
  IN IF key \in DOMAIN S.hiCache
       THEN [S |-> S, value |-> S.hiCache[key], computed |-> FALSE,
             thrown |-> FALSE]
     ELSE IF iterations < 1 /\ pbkdf2Rejects
       THEN [S |-> S, value |-> NULL, computed |-> FALSE, thrown |-> TRUE]
     ELSE
       LET saltedData == pbkdf2Sync(data, salt, iterations, method)
           purged == IF HiCacheFull(S.hiCacheCount)
                       THEN [S EXCEPT !.hiCache = EmptyCache,
                                      !.hiCacheCount = 0]
                       ELSE S
           cache == [x \in DOMAIN purged.hiCache \cup {key} |->
                       IF x = key THEN saltedData ELSE purged.hiCache[x]]
       IN [S |-> [purged EXCEPT !.hiCache = cache, !.hiCacheCount = @ + 1],
           value |-> saltedData, computed |-> TRUE, thrown |-> FALSE]

\* String.prototype.replace(pattern, replacement) with a string pattern of
\* one character, on a string held as the sequence of its characters: the
\* first occurrence is replaced, and only that one.
RECURSIVE replace(_, _, _)
replace(str, pattern, replacement) ==
  IF str = <<>> THEN <<>>
  ELSE IF Head(str) = pattern THEN replacement \o Tail(str)
  ELSE <<Head(str)>> \o replace(Tail(str), pattern, replacement)

\* username.replace('=', '=3D').replace(',', '=2C')
CleanUsername(username) ==
  replace(replace(username, "=", <<"=", "3", "D">>), ",", <<"=", "2", "C">>)

\* The identifier and the nonce a server's reply carries: r.result's
\* conversationId, and r of its payload. A server keeps one conversation per
\* connection.
ConversationId(r) == [kind |-> "conversationId", conn |-> r.conn]
ServerNonce(r) == [kind |-> "rnonce", conn |-> r.conn]
Salt(r) == "salt"

\* Faulty variant of ClientNonce: the nonce is kept in one place for all attempts.
ClientNonceShared(S, id, k) == S.calls[id].att[1].nonce

\* The nonce parameter of _executeScram, closed over by its callbacks.
ClientNonce(S, id, k) == S.calls[id].att[k].nonce

\* firstBare: n=<username>,r=<nonce>
FirstBare(S, id, k) ==
  [n |-> S.calls[id].cred.username, r |-> ClientNonce(S, id, k)]

\* ScramSHA._getError(err, r): err, else r.result when it carries $err or
\* errmsg, else undefined.
getError(err, r) ==
  IF err # NULL THEN err
  ELSE IF HasErrField(r, "$err") \/ HasErrField(r, "errmsg") THEN r
  ELSE NULL

\* passwordDigest(username, password) throws on an empty password (usernames
\* and passwords of the model are strings); only the sha1 variant calls it.
passwordDigestThrows(method, credentials) ==
  method = "sha1" /\ credentials.password = ""

\* Faulty variant of ConversationEnds: only done === true ends the conversation.
ConversationEndsOnTrue(r) == r = NULL \/ r.done = "true"

\* The saslContinue callback's test: !r || r.result.done !== false
ConversationEnds(r) == r = NULL \/ r.done # "false"

\* iterations && iterations < 4096
InvalidIterationCount(iterations) ==
  iterations # 0 /\ iterations < MinIterations

\* The attempt of call id on connection k writes a command.
Send(S, id, k, cmd, pc) ==
  [S EXCEPT !.calls[id].att[k].cmds = Append(@, cmd),
            !.calls[id].att[k].pc = pc]

\* The same, with the conversationId and the payload the command carries.
SendCommand(S, id, k, cmd, pc, conversationId, payload) ==
  [Send(S, id, k, cmd, pc) EXCEPT
     !.calls[id].att[k].wire =
        Append(@, [conversationId |-> conversationId, payload |-> payload])]

\* An exception leaves the callback the event loop invoked: the attempt ends
\* without calling back.
Throw(S, id, k) == [S EXCEPT !.calls[id].att[k].pc = "thrown"]

\* The crypto.randomBytes callback of _authenticateSingleConnection, and, when
\* a nonce was made, _executeScram up to the write of saslStart.
randomBytesCallback(S, id, k, failed) ==
  LET nonce == [kind |-> "nonce", call |-> id, conn |-> k]
      S1 == [S EXCEPT !.calls[id].att[k].nonce = nonce]
  IN IF failed THEN Report(S, id, k, MongoError("randomBytes", k), NULL)
     ELSE IF passwordDigestThrows(cryptoMethod, S.calls[id].cred)
       THEN Throw(S1, id, k)
     ELSE SendCommand(S1, id, k, "saslStart", "start", NULL, FirstBare(S1, id, k))

\* The callback of saslStart. pbkdf2Rejects: whether this build's
\* crypto.pbkdf2Sync throws on an iteration count of 0 (HI runs before the
\* iteration count is looked at).
saslStartCallback(S, id, k, a, pbkdf2Rejects) ==
  LET tmpError == getError(a.err, a.r)
      S1 == [S EXCEPT !.calls[id].att[k].rep1 = a]
      iterations == a.r.i
      rnonce == ServerNonce(a.r)
      withoutProof == [r |-> rnonce]
      h == HI(S1, ProcessedPassword(cryptoMethod, S.calls[id].cred), Salt(a.r),
              iterations, cryptoMethod, pbkdf2Rejects)
      authMessage == [firstBare |-> FirstBare(S, id, k), serverFirst |-> a.r,
                      withoutProof |-> withoutProof]
      payload == [withoutProof |-> withoutProof, authMessage |-> authMessage,
                  saltedPassword |-> h.value]
  IN IF tmpError # NULL THEN Report(S1, id, k, tmpError, NULL)
     ELSE IF h.thrown THEN Throw(h.S, id, k)
     ELSE IF InvalidIterationCount(iterations)
       THEN Report(h.S, id, k, MongoError("invalid iteration count", k), JSFalse)
     ELSE SendCommand(h.S, id, k, "saslContinue:proof", "continue",
                      ConversationId(a.r), payload)

\* The callback of the saslContinue that carries the proof.
saslContinueCallback(S, id, k, a) ==
  LET S1 == [S EXCEPT !.calls[id].att[k].rep2 = a]
  IN IF ConversationEnds(a.r) THEN Report(S1, id, k, a.err, a.r)
     ELSE SendCommand(S1, id, k, "saslContinue:empty", "retry",
                      ConversationId(a.r), NULL)

\* The empty saslContinue is written with the attempt's callback itself.
retryCallback(S, id, k, a) == Report(S, id, k, a.err, a.r)

\* ------------------------------------------------------------------------
\* Actions
\* ------------------------------------------------------------------------

Install(S) ==
  /\ authStore' = S.authStore
  /\ calls' = S.calls
  /\ reauths' = S.reauths
  /\ tickQueue' = S.tickQueue
  /\ hiCache' = S.hiCache
  /\ hiCacheCount' = S.hiCacheCount
  /\ stale' = S.stale
  /\ UNCHANGED <<cryptoMethod, hiLast, scramUser>>

ConnectionList(n) == [k \in 1..n |-> k]

\* auth and reauthenticate invocations so far.
Ops == Len(reauths) + Cardinality({id \in 1..Len(calls) : calls[id].parent = 0})

\* A provider that has not been called, and an empty cache.
Fresh ==
  /\ cryptoMethod \in {"sha1", "sha256"}
  /\ authStore = <<>>
  /\ calls = <<>>
  /\ reauths = <<>>
  /\ tickQueue = <<>>
  /\ hiCache = EmptyCache
  /\ hiCacheCount = 0
  /\ hiLast = NULL
  /\ stale = {}

Init ==
  /\ Fresh
  /\ scramUser = NULL

\* auth(writeCommand, connections, source, username, password, callback)
Authenticate ==
  \E credentials \in Creds, n \in 0..MaxConns :
    /\ Ops < MaxOps
    /\ Install(Auth(Bundle, ConnectionList(n), credentials, 0).S)

Reauthenticate ==
  \E n \in 0..MaxConns :
    /\ Ops < MaxOps
    /\ Install(reauthenticate(Bundle, ConnectionList(n)))

\* The _auth invocations that have not called back when logout runs for the
\* source of their credentials.
InFlightFor(source) ==
  {id \in 1..Len(calls) :
     calls[id].cbCount = 0 /\ calls[id].cred.source = source}

LogoutOf(source) ==
  Install([Bundle EXCEPT !.authStore = logout(@, source),
                         !.stale = @ \cup InFlightFor(source)])

Logout == \E source \in Sources : LogoutOf(source)

AddCredentials ==
  \E credentials \in AddedCreds :
    Install([Bundle EXCEPT !.authStore = addCredentials(@, credentials)])

\* The next process.nextTick callback: execute(connection), which calls
\* _authenticateSingleConnection, which asks for the random nonce.
NextTick ==
  /\ tickQueue # <<>>
  /\ LET id == Head(tickQueue)[1]
         k == Head(tickQueue)[2]
     IN Install([Bundle EXCEPT !.tickQueue = Tail(@),
                               !.calls[id].att[k].pc = "nonce"])

\* Callbacks of I/O run once the nextTick queue is drained.
Pending(id, k, pc) ==
  /\ tickQueue = <<>>
  /\ id \in 1..Len(calls)
  /\ k \in 1..calls[id].n
  /\ calls[id].att[k].pc = pc

RandomBytesDone ==
  \E id \in 1..Len(calls), k \in 1..MaxConns, failed \in BOOLEAN :
    /\ Pending(id, k, "nonce")
    /\ Install(randomBytesCallback(Bundle, id, k, failed))

SaslStartAnsweredIn(counts) ==
  \E id \in 1..Len(calls), k \in 1..MaxConns, pbkdf2Rejects \in BOOLEAN :
    /\ Pending(id, k, "start")
    /\ \E a \in StartAnswersIn(k, counts) :
         Install(saslStartCallback(Bundle, id, k, a, pbkdf2Rejects))

\* saslStart is answered by any server.
SaslStartAnswered == SaslStartAnsweredIn(IterationCounts)

\* saslStart is answered by a server that sends a positive iteration count.
SaslStartAnsweredPositive == SaslStartAnsweredIn(PositiveCounts)

SaslContinueAnswered ==
  \E id \in 1..Len(calls), k \in 1..MaxConns :
    /\ Pending(id, k, "continue")
    /\ \E a \in ContinueAnswers(k) :
         Install(saslContinueCallback(Bundle, id, k, a))

RetryAnswered ==
  \E id \in 1..Len(calls), k \in 1..MaxConns :
    /\ Pending(id, k, "retry")
    /\ \E a \in AckAnswers(k) :
         Install(retryCallback(Bundle, id, k, a))

\* The provider under every call of its user, against servers that send a
\* positive iteration count.
Next ==
  \/ Authenticate
  \/ Reauthenticate
  \/ Logout
  \/ AddCredentials
  \/ NextTick
  \/ RandomBytesDone
  \/ SaslStartAnsweredPositive
  \/ SaslContinueAnswered
  \/ RetryAnswered

Spec == Init /\ [][Next]_vars

\* One auth call, against any server.
NextScram ==
  \/ Authenticate
  \/ NextTick
  \/ RandomBytesDone
  \/ SaslStartAnswered
  \/ SaslContinueAnswered
  \/ RetryAnswered

SpecScram == Init /\ [][NextScram]_vars

\* ------------------------------------------------------------------------
\* HI called directly
\* ------------------------------------------------------------------------

\* The inputs HI is called with: one more than the cache holds before it is
\* purged. Input n is a (data, salt, iterations) of its own.
HiInputs == 1..(HiCacheLimit + 1)

HiInput(n) ==
  [data |-> [kind |-> "password", password |-> n \div 4],
   salt |-> IF (n \div 2) % 2 = 0 THEN "salt" ELSE "pepper",
   iterations |-> MinIterations + (n % 2)]

\* The hash methods input n is used with.
HiMethods(n) == IF n <= MixedInputs THEN {"sha1", "sha256"} ELSE {"sha1"}

\* The first of the inputs whose key is not in keys, if any.
FirstMiss(keys) ==
  LET uncached ==
        {n \in HiInputs :
           HiKey(HiInput(n).data, HiInput(n).salt, HiInput(n).iterations, "sha1")
             \notin keys}
  IN IF uncached = {} THEN {}
     ELSE {CHOOSE n \in uncached : \A m \in uncached : n <= m}

\* The inputs of the next call: the first input that misses, an input used
\* with both methods, or the input of the call before.
HiCandidates ==
  FirstMiss(DOMAIN hiCache) \cup (1..MixedInputs)
    \cup (IF hiLast # NULL THEN {hiLast.n} ELSE {})

\* HI(data, salt, iterations, cryptoMethod), called with input n.
HICall ==
  \E n \in HiCandidates :
    \E method \in HiMethods(n) :
      LET in == HiInput(n)
          h == HI(Bundle, in.data, in.salt, in.iterations, method, FALSE)
      IN /\ hiCache' = h.S.hiCache
         /\ hiCacheCount' = h.S.hiCacheCount
         /\ hiLast' = [n |-> n, data |-> in.data, salt |-> in.salt,
                       iterations |-> in.iterations, method |-> method,
                       value |-> h.value, computed |-> h.computed,
                       repeated |-> (hiLast # NULL /\ hiLast.n = n
                                       /\ hiLast.method = method)]
         /\ UNCHANGED <<cryptoMethod, authStore, calls, reauths, tickQueue,
                        stale, scramUser>>

NextHI == HICall

SpecHI == Init /\ [][NextHI]_vars

\* ------------------------------------------------------------------------
\* The username of the first client message
\* ------------------------------------------------------------------------

\* Usernames as sequences of characters: the two that are escaped, and one
\* that is not.
UserChars == {"=", ",", "a"}
Usernames == UNION {[1..n -> UserChars] : n \in 0..MaxUserLen}

InitUser ==
  /\ Fresh
  /\ scramUser \in {[username |-> u, cleaned |-> FALSE, n |-> <<>>] :
                      u \in Usernames}

\* _executeScram cleans up the user for firstBare (n=<username>).
CleanUp ==
  /\ ~scramUser.cleaned
  /\ scramUser' = [scramUser EXCEPT !.cleaned = TRUE,
                                    !.n = CleanUsername(scramUser.username)]
  /\ UNCHANGED <<cryptoMethod, authStore, calls, reauths, tickQueue, hiCache,
                 hiCacheCount, hiLast, stale>>

NextUser == CleanUp

SpecUser == InitUser /\ [][NextUser]_vars

\* ------------------------------------------------------------------------
\* Properties
\* ------------------------------------------------------------------------

CallIds == 1..Len(calls)
Conns(id) == 1..calls[id].n

\* The outcome an attempt reported, judged as the specification words it:
\* valid when there is no error and the reply has neither $err nor errmsg.
OutcomeValid(a) ==
  /\ a.reported > 0
  /\ a.outErr = NULL
  /\ a.outRes.kind = "reply" => a.outRes.errField = "none"

\* The error an invalid outcome carries: the err, else the reply itself.
OutcomeError(a) == IF a.outErr # NULL THEN a.outErr ELSE a.outRes

AllReported(c) == \A k \in 1..c.n : c.att[k].reported = 1
AnyValid(c) == \E k \in 1..c.n : OutcomeValid(c.att[k])

\* The overall callback of call id is invoked in this step.
CallsBack(id) ==
  /\ id \in 1..Len(calls')
  /\ calls'[id].cbCount > (IF id <= Len(calls) THEN calls[id].cbCount ELSE 0)

EqualStored(store, credentials) ==
  {i \in 1..Len(store) : CredEquals(store[i], credentials)}

\* C1: an authenticate call over N >= 1 connections invokes its callback
\* exactly once, and it has done so exactly when all N attempts have reported,
\* whatever the order in which they report.
C1_CallbackOnceAtLastOutcome ==
  \A id \in CallIds :
    LET c == calls[id]
    IN c.n >= 1 =>
         /\ c.cbCount = (IF AllReported(c) THEN 1 ELSE 0)
         /\ \A k \in 1..c.n : c.att[k].reported <= 1

\* Both attempts of a call reported, the second connection first, and the
\* callback was invoked.
C1_Witness ==
  \E id \in CallIds :
    /\ calls[id].n = 2
    /\ calls[id].order = <<2, 1>>
    /\ calls[id].cbCount = 1

\* C2: when the callback of a call over N >= 1 connections is invoked and at
\* least one outcome was valid, it is invoked with (null, true) and the store
\* then holds exactly one credential equal to the call's.
C2_AnyValidSucceeds ==
  [][\A id \in 1..Len(calls') :
       (CallsBack(id) /\ calls'[id].n >= 1 /\ AnyValid(calls'[id])) =>
         /\ calls'[id].cbErr = NULL
         /\ calls'[id].cbRes = "true"
         /\ Cardinality(EqualStored(authStore', calls'[id].cred)) = 1]_vars

\* A call succeeded although the attempt that reported last failed, and the
\* store holds an equal credential that is not the call's own (it was stored
\* before).
C2_Witness ==
  \E id \in CallIds :
    LET c == calls[id]
    IN /\ c.n = 2 /\ c.cbCount = 1 /\ c.cbRes = "true"
       /\ ~OutcomeValid(c.att[c.order[2]])
       /\ \E i \in 1..Len(authStore) :
            CredEquals(authStore[i], c.cred) /\ authStore[i] # c.cred

\* C3: when the callback of a call over N >= 1 connections is invoked and no
\* outcome was valid, it is invoked with success false and the error of the
\* attempt that reported last (the generic error if none was captured), and the
\* step leaves the store as it was.
C3_NoneValidFails ==
  [][\A id \in 1..Len(calls') :
       (CallsBack(id) /\ calls'[id].n >= 1 /\ ~AnyValid(calls'[id])) =>
         LET c == calls'[id]
             last == c.att[c.order[Len(c.order)]]
         IN /\ c.cbRes = "false"
            /\ c.cbErr = (IF OutcomeError(last) = NULL THEN GenericError
                          ELSE OutcomeError(last))
            /\ authStore' = authStore]_vars

\* A call failed with the error of connection 1, which reported after
\* connection 2 had reported another error.
C3_Witness ==
  \E id \in CallIds :
    LET c == calls[id]
    IN /\ c.n = 2 /\ c.cbCount = 1 /\ c.cbRes = "false"
       /\ c.order = <<2, 1>>
       /\ c.cbErr = OutcomeError(c.att[1])
       /\ OutcomeError(c.att[2]).kind = "error"
       /\ c.cbErr.kind = "reply"

\* C4: every connection handed to a call has its own attempt, which stays
\* queued until it starts whatever its siblings did, and the callback is not
\* invoked while an attempt has not reported.
C4_NoEarlyReport ==
  \A id \in CallIds :
    LET c == calls[id]
    IN /\ Len(c.att) = c.n
       /\ \A k \in 1..c.n :
            c.att[k].pc = "tick" =>
              \E q \in 1..Len(tickQueue) : tickQueue[q] = <<id, k>>
       /\ c.cbCount > 0 => \A k \in 1..c.n : c.att[k].pc = "done"

\* One attempt has reported a valid outcome, its sibling still waits for a
\* reply, and the callback has not been invoked.
C4_Witness ==
  \E id \in CallIds :
    LET c == calls[id]
    IN /\ c.n = 2 /\ c.cbCount = 0
       /\ OutcomeValid(c.att[1])
       /\ c.att[2].pc = "continue"

\* C5: a call with an empty connection list invokes its callback with
\* (null, null) in the step that makes it, queues nothing, has no attempt and
\* sends nothing, and the step leaves the store as it was.
C5_EmptyConnectionList ==
  [][\A id \in 1..Len(calls') :
       (id > Len(calls) /\ calls'[id].n = 0) =>
         /\ calls'[id].cbCount = 1
         /\ calls'[id].cbErr = NULL
         /\ calls'[id].cbRes = "null"
         /\ calls'[id].att = <<>>
         /\ \A q \in 1..Len(tickQueue') : tickQueue'[q][1] # id
         /\ calls'[id].parent = 0 => tickQueue' = tickQueue
         /\ authStore' = authStore]_vars

\* auth was called with an empty list while credentials were stored.
C5_Witness ==
  \E id \in CallIds :
    /\ calls[id].n = 0 /\ calls[id].parent = 0
    /\ calls[id].cbCount = 1 /\ calls[id].cbRes = "null"
    /\ Len(authStore) = 2
    /\ EqualStored(authStore, calls[id].cred) = {}

ReauthIds == 1..Len(reauths)

\* The _auth invocations reauthenticate invocation p made, in snapshot order.
Replays(p) ==
  [i \in 1..Len(reauths[p].authStore) |-> reauths[p].first + i - 1]

\* The error of the last _auth invocation of ids whose callback got an error.
RECURSIVE LastError(_)
LastError(ids) ==
  IF ids = <<>> THEN NULL
  ELSE IF calls[ids[Len(ids)]].cbErr # NULL THEN calls[ids[Len(ids)]].cbErr
  ELSE LastError(SubSeq(ids, 1, Len(ids) - 1))

\* C6: reauthenticate over K >= 1 stored credentials and N >= 1 connections
\* gives each credential of the snapshot an attempt on each of the N
\* connections.
C6_ReplaysEveryCredentialOnEveryConnection ==
  \A p \in ReauthIds :
    LET re == reauths[p]
    IN (Len(re.authStore) >= 1 /\ re.n >= 1) =>
         \A i \in 1..Len(re.authStore) :
           /\ calls[Replays(p)[i]].cred = re.authStore[i]
           /\ Len(calls[Replays(p)[i]].att) = re.n

\* C7: reauthenticate invokes its callback exactly once, and has done so
\* exactly when the replay of every snapshot credential has called back; the
\* result is null and the error is that of the last replay that produced one
\* (last to call back, and last of the snapshot), null when none did.
C7_ReauthReportsLastError ==
  \A p \in ReauthIds :
    LET re == reauths[p]
        all == \A i \in 1..Len(re.authStore) : calls[Replays(p)[i]].cbCount >= 1
    IN /\ re.cbCount = (IF all THEN 1 ELSE 0)
       /\ re.cbCount = 1 =>
            /\ re.cbRes = "null"
            /\ re.cbErr = LastError(re.order)
            /\ re.cbErr = LastError(Replays(p))
       /\ Len(re.authStore) = 0 => re.cbErr = NULL

\* reauthenticate over two stored credentials and a connection called back
\* with the error the replay produced.
C7_Witness ==
  \E p \in ReauthIds :
    /\ Len(reauths[p].authStore) = 2
    /\ reauths[p].n >= 1
    /\ reauths[p].cbCount = 1
    /\ reauths[p].cbErr # NULL

\* s is t without some of its elements, in the same order.
IsSubSeqVia(s, t, f) ==
  /\ \A j \in 1..Len(s) : s[j] = t[f[j]]
  /\ \A j \in 1..Len(s) : \A l \in 1..Len(s) : j < l => f[j] < f[l]

\* after is store without its credentials of source, the others in order.
RemovesSource(store, source, after) ==
  /\ \A j \in 1..Len(after) : after[j].source # source
  /\ \E f \in [1..Len(after) -> 1..Len(store)] :
       /\ IsSubSeqVia(after, store, f)
       /\ \A i \in 1..Len(store) :
            store[i].source # source => \E j \in 1..Len(after) : f[j] = i

\* C8: logout(source) leaves exactly the stored credentials of the other
\* sources, in their order, whatever the store holds, and a step that logs
\* out sends or schedules nothing.
C8_LogoutRemovesSource ==
  /\ [](\A source \in Sources :
          RemovesSource(authStore, source, logout(authStore, source)))
  /\ [][\A source \in Sources :
          LogoutOf(source) =>
            /\ RemovesSource(authStore, source, authStore')
            /\ calls' = calls
            /\ reauths' = reauths
            /\ tickQueue' = tickQueue]_vars

\* While a command is awaited, the store holds credentials of source a, b and
\* a, in this order: logout("b") leaves the two of a in their order, and
\* logout("a") leaves the one of b.
C8_Witness ==
  /\ Len(authStore) = 3
  /\ authStore[1].source = "a" /\ authStore[2].source = "b"
  /\ authStore[3].source = "a"
  /\ \E id \in CallIds : \E k \in Conns(id) : calls[id].att[k].pc = "start"
  /\ ENABLED (LogoutOf("b") /\ authStore' = <<authStore[1], authStore[3]>>)
  /\ ENABLED (LogoutOf("a") /\ authStore' = <<authStore[2]>>)

\* C9: no two stored credentials are equal, and adding a credential equal to
\* a stored one leaves the store as it is.
C9_StoreUnique ==
  /\ \A i \in 1..Len(authStore) : \A j \in 1..Len(authStore) :
       CredEquals(authStore[i], authStore[j]) => i = j
  /\ \A credentials \in Creds :
       EqualStored(authStore, credentials) # {} =>
         addCredentials(authStore, credentials) = authStore
  /\ \A credentials \in Creds :
       addCredentials(addCredentials(authStore, credentials), credentials)
         = addCredentials(authStore, credentials)

\* A call succeeded for a credential while another credential, equal to it
\* but with another password, stays the stored one, among three.
C9_Witness ==
  /\ Len(authStore) = 3
  /\ \E id \in CallIds :
       /\ calls[id].n >= 1 /\ calls[id].cbRes = "true"
       /\ calls[id].cred.password = "pencil"
       /\ \E i \in 1..Len(authStore) :
            /\ CredEquals(authStore[i], calls[id].cred)
            /\ authStore[i].password = ""

ScramCommands == <<"saslStart", "saslContinue:proof", "saslContinue:empty">>

\* The reply to the proof is present and its done is exactly false.
AsksForMore(a) ==
  IF a.rep2 = NULL THEN FALSE
  ELSE IF a.rep2.r = NULL THEN FALSE
  ELSE a.rep2.r.done = "false"

\* C10: an attempt sends saslStart, the saslContinue with the proof and the
\* empty saslContinue, in this order and at most once each; it has sent the
\* third exactly when the reply to the second is present with done false;
\* otherwise the answer to the second is its outcome; and once the proof is
\* sent it either awaits a reply or has reported exactly one outcome.
C10_ScramRounds ==
  \A id \in CallIds : \A k \in Conns(id) :
    LET a == calls[id].att[k]
    IN /\ Len(a.cmds) <= 3
       /\ a.cmds = SubSeq(ScramCommands, 1, Len(a.cmds))
       /\ Len(a.cmds) = 3 <=> AsksForMore(a)
       /\ (a.rep2 # NULL /\ ~AsksForMore(a)) =>
            /\ a.pc = "done"
            /\ a.outErr = a.rep2.err
            /\ a.outRes = a.rep2.r
       /\ a.reported <= 1
       /\ a.reported = 1 <=> a.pc = "done"
       /\ Len(a.cmds) >= 2 =>
            \/ a.pc = "continue" /\ Len(a.cmds) = 2 /\ a.rep2 = NULL
            \/ a.pc = "retry" /\ Len(a.cmds) = 3
            \/ a.pc = "done"

\* One attempt reported after three commands, its sibling after two, the
\* reply to its proof carrying no done field.
C10_Witness ==
  \E id \in CallIds :
    LET c == calls[id]
    IN /\ c.n = 2
       /\ Len(c.att[1].cmds) = 3 /\ c.att[1].reported = 1
       /\ c.att[1].rep2.r.errField = "none"
       /\ Len(c.att[2].cmds) = 2 /\ c.att[2].reported = 1
       /\ c.att[2].rep2.r # NULL
       /\ c.att[2].rep2.r.done = "absent"

\* The answer a carries a reply whose result has $err or errmsg.
CarriesError(a) ==
  /\ a # NULL
  /\ a.err = NULL
  /\ HasErrField(a.r, "$err") \/ HasErrField(a.r, "errmsg")

\* C11: a reply carrying $err or errmsg ends the conversation at whatever step
\* it arrives: once such a reply to saslStart or to the first saslContinue has
\* been handled (whatever its done field), the attempt has written no further
\* command and has reported an outcome that is an error.
C11_ErrorReplyEndsConversation ==
  \A id \in CallIds : \A k \in Conns(id) :
    LET t == calls[id].att[k]
    IN /\ CarriesError(t.rep1) =>
            Len(t.cmds) = 1 /\ t.reported = 1 /\ ~OutcomeValid(t)
       /\ CarriesError(t.rep2) =>
            Len(t.cmds) = 2 /\ t.reported = 1 /\ ~OutcomeValid(t)

\* The attempt t got a saslStart reply without error whose iteration count is
\* one of counts.
StartedWith(t, counts) ==
  /\ t.rep1 # NULL
  /\ t.rep1.err = NULL
  /\ ~CarriesError(t.rep1)
  /\ t.rep1.r.i \in counts

\* The attempt t ended with the protocol error of the iteration count, having
\* written saslStart only.
EndedOnIterationCount(t) ==
  /\ t.cmds = <<"saslStart">>
  /\ t.reported = 1
  /\ t.outErr.kind = "error"
  /\ t.outErr.message = "invalid iteration count"

\* C12: for every iteration count below 4096 that the saslStart reply carries,
\* 0 included, the attempt ends with a protocol error and no saslContinue is
\* ever written on that connection.
C12_LowIterationCountRejected ==
  \A id \in CallIds : \A k \in Conns(id) :
    StartedWith(calls[id].att[k], {i \in IterationCounts : i < MinIterations})
      => EndedOnIterationCount(calls[id].att[k])

\* The same for the positive counts below 4096, which the code does reject.
C12_PositiveLowCountRejected ==
  \A id \in CallIds : \A k \in Conns(id) :
    StartedWith(calls[id].att[k],
                {i \in IterationCounts : 1 <= i /\ i < MinIterations})
      => EndedOnIterationCount(calls[id].att[k])

\* C13: credentials malformed for SHA-1 (here: an empty password) are detected
\* before any command is written and are fatal to that attempt only: once an
\* attempt has its nonce it has written nothing and has reported an error, and
\* once every attempt of the call has it, the callback has been invoked with
\* the overall failure.
C13_MalformedCredentialsReported ==
  \A id \in CallIds :
    LET c == calls[id]
    IN (cryptoMethod = "sha1" /\ c.cred.password = "") =>
         /\ \A k \in 1..c.n :
              c.att[k].nonce # NULL =>
                /\ c.att[k].cmds = <<>>
                /\ c.att[k].reported = 1
                /\ c.att[k].outErr.kind = "error"
         /\ (c.n >= 1 /\ \A k \in 1..c.n : c.att[k].pc \notin {"tick", "nonce"})
              => c.cbCount = 1 /\ c.cbRes = "false"

\* What an attempt may be waiting for: its nextTick callback, its nonce, or
\* the answer to a command it wrote.
Awaiting == {"tick", "nonce", "start", "continue", "retry"}

\* C14: once everything the attempts of an auth call with valid credentials
\* wait for has arrived (every command written was answered), the callback of
\* the call has been invoked; and as long as some attempt still waits for an
\* answer, it has not been (there is no timeout and no cancellation).
C14_CallbackWhenAllAnswered ==
  \A id \in CallIds :
    LET c == calls[id]
    IN (c.n >= 1 /\ ~passwordDigestThrows(cryptoMethod, c.cred)) =>
         /\ (\A k \in 1..c.n : c.att[k].pc \notin Awaiting) => c.cbCount = 1
         /\ (\E k \in 1..c.n : c.att[k].pc \in Awaiting) => c.cbCount = 0

\* C15: for a non-empty connection list no attempt begins inside the auth call
\* itself: in the state the call leaves, each of its N attempts is queued for
\* a later turn, in the order of the list, and none has a nonce, has written a
\* command or has reported, and the callback has not been invoked. And no
\* attempt waits for another to finish: while one is still queued, no other
\* attempt of the call has reported.
C15_AttemptsDeferred ==
  /\ [](\A id \in CallIds : \A k \in Conns(id) :
          calls[id].att[k].pc = "tick" =>
            /\ \E q \in 1..Len(tickQueue) : tickQueue[q] = <<id, k>>
            /\ \A j \in Conns(id) : calls[id].att[j].reported = 0)
  /\ [][\A id \in 1..Len(calls') :
          (id > Len(calls) /\ calls'[id].n >= 1) =>
            /\ \A k \in 1..calls'[id].n :
                 /\ calls'[id].att[k].pc = "tick"
                 /\ calls'[id].att[k].nonce = NULL
                 /\ calls'[id].att[k].cmds = <<>>
                 /\ calls'[id].att[k].reported = 0
            /\ calls'[id].cbCount = 0
            /\ tickQueue' = tickQueue \o [k \in 1..calls'[id].n |-> <<id, k>>]]_vars

\* An auth call over two connections has just returned: both attempts are
\* queued and neither has begun.
C15_Witness ==
  \E id \in CallIds :
    /\ calls[id].n = 2
    /\ tickQueue = << <<id, 1>>, <<id, 2>> >>
    /\ \A k \in Conns(id) : calls[id].att[k].pc = "tick"

\* The nonce crypto.randomBytes made for the attempt of call id on connection k.
OwnNonce(id, k) == [kind |-> "nonce", call |-> id, conn |-> k]

\* The command w carries the proof made in this attempt: the conversation
\* identifier and the server nonce of the saslStart reply t.rep1 received on
\* connection k, and a transcript over the attempt's own client nonce.
CarriesOwnConversation(w, t, id, k) ==
  /\ t.rep1.r.conn = k
  /\ w.conversationId = ConversationId(t.rep1.r)
  /\ w.conversationId.conn = k
  /\ w.payload # NULL
  /\ w.payload.withoutProof.r = ServerNonce(t.rep1.r)
  /\ w.payload.withoutProof.r.conn = k
  /\ w.payload.authMessage.serverFirst = t.rep1.r
  /\ w.payload.authMessage.firstBare.r = OwnNonce(id, k)
  /\ t.nonce = OwnNonce(id, k)

\* C16, as claimed: every saslContinue written on a connection carries the
\* conversation identifier and the server nonce of the saslStart reply
\* received on that connection in that attempt, and a transcript over that
\* attempt's own client nonce.
C16_EverySaslContinueCarriesConversation ==
  \A id \in CallIds : \A k \in Conns(id) :
    LET t == calls[id].att[k]
    IN \A i \in 2..Len(t.wire) : CarriesOwnConversation(t.wire[i], t, id, k)

\* C16, amended: conversation state is never mixed between connections. The
\* saslContinue that carries the proof carries the conversation identifier
\* and the server nonce of the saslStart reply received on that connection in
\* that attempt, and its transcript is over that attempt's own client nonce;
\* the empty saslContinue carries the conversation identifier of the reply to
\* the proof received on that connection in that attempt, and no payload; and
\* saslStart carries the attempt's own client nonce.
C16_ConversationPerAttempt ==
  \A id \in CallIds : \A k \in Conns(id) :
    LET t == calls[id].att[k]
    IN /\ Len(t.wire) = Len(t.cmds)
       /\ Len(t.wire) >= 1 => t.wire[1].payload.r = OwnNonce(id, k)
       /\ Len(t.wire) >= 2 => CarriesOwnConversation(t.wire[2], t, id, k)
       /\ Len(t.wire) >= 3 =>
            /\ t.rep2.r.conn = k
            /\ t.wire[3].conversationId = ConversationId(t.rep2.r)
            /\ t.wire[3].conversationId.conn = k
            /\ t.wire[3].payload = NULL

\* Both attempts of a call wrote all three commands, the second connection
\* being answered first at every step.
C16_Witness ==
  \E id \in CallIds :
    /\ calls[id].n = 2
    /\ \A k \in Conns(id) : Len(calls[id].att[k].wire) = 3
    /\ calls[id].order = <<2, 1>>

\* The key of the last direct call of HI, in the state after it.
LastKey == HiKey(hiLast'.data, hiLast'.salt, hiLast'.iterations, hiLast'.method)

\* C17: after any sequence of calls of HI the cache holds at most 200 entries
\* and _hiCacheCount is the number of entries it holds; and a miss that
\* arrives when the count is 200 purges the cache first: after it the cache
\* holds exactly the new entry, so that every key cached before misses.
C17_CacheBounded ==
  /\ [](/\ Cardinality(DOMAIN hiCache) = hiCacheCount
        /\ hiCacheCount <= HiCacheLimit)
  /\ [][(hiCacheCount = HiCacheLimit /\ hiLast'.computed) =>
          /\ DOMAIN hiCache' = {LastKey}
          /\ hiCacheCount' = 1
          /\ \A key \in DOMAIN hiCache : key \notin DOMAIN hiCache']_vars

\* The cache was purged by the miss of the last input: it holds that entry
\* and no other.
C17_Witness ==
  /\ hiCacheCount = 1
  /\ hiLast # NULL
  /\ hiLast.n = HiCacheLimit + 1
  /\ hiLast.computed
  /\ DOMAIN hiCache = {HiKey(hiLast.data, hiLast.salt, hiLast.iterations, hiLast.method)}

\* C18: memoization is transparent: whatever calls came before, with either
\* hash method, HI returns for (data, salt, iterations, method) what the
\* derivation yields for these four inputs, and of two consecutive calls with
\* the same inputs the second does not run the derivation.
C18_MemoizationTransparent ==
  hiLast # NULL =>
    /\ hiLast.value =
         pbkdf2Sync(hiLast.data, hiLast.salt, hiLast.iterations, hiLast.method)
    /\ hiLast.repeated => ~hiLast.computed

\* The username with every '=' replaced by '=3D' and every ',' by '=2C', in
\* one pass from left to right (what the escaping puts in is not looked at
\* again).
RECURSIVE EscapeEvery(_)
EscapeEvery(str) ==
  IF str = <<>> THEN <<>>
  ELSE (IF Head(str) = "=" THEN <<"=", "3", "D">>
        ELSE IF Head(str) = "," THEN <<"=", "2", "C">>
        ELSE <<Head(str)>>) \o EscapeEvery(Tail(str))

\* C19: in the first client message every '=' of the username is replaced by
\* '=3D' and every ',' by '=2C', however many there are, and an '=' the
\* escaping puts in is not escaped again.
C19_EveryOccurrenceEscaped ==
  (scramUser # NULL /\ scramUser.cleaned) =>
    scramUser.n = EscapeEvery(scramUser.username)

\* The same for usernames with at most one '=' and at most one ',', where the
\* code does what the claim says.
C19_SingleOccurrenceEscaped ==
  (/\ scramUser # NULL
   /\ scramUser.cleaned
   /\ \A ch \in {"=", ","} :
        Cardinality({i \in 1..Len(scramUser.username) :
                       scramUser.username[i] = ch}) <= 1)
    => scramUser.n = EscapeEvery(scramUser.username)

\* The store holds a credential of this source.
HasSource(store, source) == \E i \in 1..Len(store) : store[i].source = source

\* In this step the callback of an _auth invocation over at least one
\* connection reports the success of a credential of this source.
SucceedsFor(id, source) ==
  /\ CallsBack(id)
  /\ calls'[id].n >= 1
  /\ calls'[id].cred.source = source
  /\ calls'[id].cbRes = "true"
  /\ calls'[id].numberOfValidConnections >= 1

\* C20, as claimed: once logout(source) has run, the store holds no credential
\* of that source until an auth call started after the logout succeeds (or
\* addCredentials is called): a step of logout leaves none, and the source
\* comes back only by the success of a call that was not in flight when
\* logout ran for it.
C20_LogoutHoldsAgainstCallsInFlight ==
  [][/\ \A source \in Sources :
          LogoutOf(source) => ~HasSource(authStore', source)
     /\ \A source \in Sources :
          (~HasSource(authStore, source) /\ HasSource(authStore', source)) =>
            \/ AddCredentials
            \/ \E id \in 1..Len(calls') :
                 SucceedsFor(id, source) /\ id \notin stale]_vars

\* C20, amended: logout(source) leaves the store without a credential of that
\* source, and the source comes back only by addCredentials or by the success
\* of an _auth invocation for a credential of that source, be it started
\* after the logout or already in flight when logout ran: logout does not
\* cancel it.
C20_SourceReturnsBySuccessOnly ==
  [][/\ \A source \in Sources :
          LogoutOf(source) => ~HasSource(authStore', source)
     /\ \A source \in Sources :
          (~HasSource(authStore, source) /\ HasSource(authStore', source)) =>
            \/ AddCredentials
            \/ \E id \in 1..Len(calls') : SucceedsFor(id, source)]_vars

\* logout ran for the source of a call in flight, the call succeeded after
\* it, and the store holds its credential again.
C20_Witness ==
  \E id \in stale :
    /\ calls[id].cbRes = "true"
    /\ \E i \in 1..Len(authStore) : authStore[i] = calls[id].cred

====
